---- MODULE Spec2Model ----
(***************************************************************************)
(* lsp-mcp-server: a bridge between MCP tool calls and an LSP server.      *)
(*                                                                         *)
(* LspClient (src/src/lspClient.ts) owns the connection, the isInitialized *)
(* flag and the openFiles set.  The tool handlers (src/unnamed/part_001)   *)
(* validate arguments, call the client and format the answer.              *)
(*                                                                         *)
(* Every tool call is an async task: it runs until its next await and      *)
(* resumes when the awaited promise settles.  One action of the model is   *)
(* one such run-to-await segment.  What the LSP server, the file system    *)
(* and the connection answer is a nondeterministic input of the segment    *)
(* that receives it.                                                       *)
(***************************************************************************)
EXTENDS Integers, Sequences, FiniteSets, TLC

VARIABLES
    isInitialized,   \* LspClient.isInitialized
    openFiles,       \* LspClient.openFiles: the set of uris announced as open
    tasks,           \* per task: where the async call is suspended, and its locals
    wire,            \* what has been handed to the connection, counted per kind
    errLog,          \* which failure lines console.error has written so far
    calls,           \* number of calls started so far
    fn               \* input and output of the pure function under check

vars == <<isInitialized, openFiles, tasks, wire, errLog, calls, fn>>

-----------------------------------------------------------------------------
(* Bounds *)

MaxCalls == 2
MaxLine == 2
MaxChar == 2
MaxRefs == 2
MaxContent == 4
MaxQuery == 2
MaxNodes == 3

\* The slots of the calls in flight: two calls may overlap.
Tasks == {1, 2}

-----------------------------------------------------------------------------
(* Paths.  A path is a sequence of segments; it is absolute iff its first  *)
(* segment is "/".  A uri is the string "file://" followed by a path.      *)

PROJECT_ROOT == <<"/", "r">>

IsAbsolute(p) == Len(p) > 0 /\ p[1] = "/"

RECURSIVE NormalizeSegs(_, _)
NormalizeSegs(segs, acc) ==
    IF Len(segs) = 0 THEN acc
    ELSE LET s == Head(segs)
             rest == Tail(segs)
         IN  IF s = "." THEN NormalizeSegs(rest, acc)
             ELSE IF s = ".."
                  THEN NormalizeSegs(rest, IF Len(acc) > 0 THEN SubSeq(acc, 1, Len(acc) - 1) ELSE acc)
                  ELSE NormalizeSegs(rest, Append(acc, s))

\* path.resolve(from, to): an absolute `to` wins, a relative one is joined to
\* `from`; the result is normalised ("." dropped, ".." climbs one directory).
PathResolve(from, to) ==
    LET joined == IF IsAbsolute(to) THEN to ELSE from \o to
    IN  <<"/">> \o NormalizeSegs(Tail(joined), <<>>)

\* `file://${fullPath}`
FileUri(fullPath) == <<"file://">> \o fullPath

\* uri.replace("file://", ""): removes the first occurrence, wherever it is.
RECURSIVE StripFileScheme(_)
StripFileScheme(uri) ==
    IF Len(uri) = 0 THEN uri
    ELSE IF Head(uri) = "file://" THEN Tail(uri)
         ELSE <<Head(uri)>> \o StripFileScheme(Tail(uri))

\* The file arguments a call may carry: a relative and an absolute spelling of
\* the same file, a second file, and a path that climbs out and back.
FilePaths == { <<"a.ts">>, <<"/", "r", "a.ts">>, <<"b.ts">>, <<"..", "r", "b.ts">> }

UriOf(filePath) == FileUri(PathResolve(PROJECT_ROOT, filePath))

Uris == { UriOf(p) : p \in FilePaths }

-----------------------------------------------------------------------------
(* LSP data: Position, Range, Location, Symbol.                             *)

Pos(l, c) == [line |-> l, character |-> c]

Rng(s, e) == [start |-> s, end |-> e]

Loc(uri, range) == [uri |-> uri, range |-> range]

\* Document order on positions: line first, then character.
PosLeq(p, q) == p.line < q.line \/ (p.line = q.line /\ p.character <= q.character)

Positions == { Pos(l, c) : l \in 0..MaxLine, c \in 0..MaxChar }

\* A Range has start <= end in document order.
Ranges == { r \in { Rng(s, e) : s \in Positions, e \in Positions } : PosLeq(r.start, r.end) }

\* An optional field of a JS object: <<>> when it is undefined, <<v>> when set.
Absent == <<>>

Present(v) == <<v>>

IsSet(opt) == Len(opt) > 0

\* A value the server may answer as null: the `!value` tests of the handlers
\* are true for null only (an empty array is truthy in JavaScript).
Null == [isNull |-> TRUE, val |-> <<>>]

Some(v) == [isNull |-> FALSE, val |-> v]

\* a swapped form of IsFalsy: an empty array counted as falsy too
IsFalsyOrEmpty(answer) == answer.isNull \/ Len(answer.val) = 0

IsFalsy(answer) == answer.isNull

-----------------------------------------------------------------------------
(* isLocationInRange (src/unnamed/part_001:37-53)                           *)

isLocationInRange_StartOnly(location, range, filePath) ==
    LET locPath == StripFileScheme(location.uri)
        targetPath == PathResolve(PROJECT_ROOT, filePath)
        locLine == location.range.start.line
    IN  IF PathResolve(PROJECT_ROOT, locPath) # targetPath THEN FALSE
        ELSE IF locLine < range.start.line \/ locLine > range.end.line THEN FALSE
        ELSE IF locLine = range.start.line
                /\ location.range.start.character < range.start.character THEN FALSE
        ELSE IF locLine = range.end.line
                /\ location.range.start.character > range.end.character THEN FALSE
        ELSE TRUE

isLocationInRange_Strict(location, range, filePath) ==
    LET locPath == StripFileScheme(location.uri)
        targetPath == PathResolve(PROJECT_ROOT, filePath)
        locLine == location.range.start.line
    IN  IF PathResolve(PROJECT_ROOT, locPath) # targetPath THEN FALSE
        ELSE IF locLine < range.start.line \/ locLine > range.end.line THEN FALSE
        ELSE IF locLine = range.start.line
                /\ location.range.start.character <= range.start.character THEN FALSE
        ELSE IF locLine = range.end.line
                /\ location.range.end.character >= range.end.character THEN FALSE
        ELSE TRUE

isLocationInRange_CharsEveryLine(location, range, filePath) ==
    LET locPath == StripFileScheme(location.uri)
        targetPath == PathResolve(PROJECT_ROOT, filePath)
        locLine == location.range.start.line
    IN  IF PathResolve(PROJECT_ROOT, locPath) # targetPath THEN FALSE
        ELSE IF locLine < range.start.line \/ locLine > range.end.line THEN FALSE
        ELSE IF location.range.start.character < range.start.character THEN FALSE
        ELSE IF location.range.end.character > range.end.character THEN FALSE
        ELSE TRUE

isLocationInRange(location, range, filePath) ==
    LET locPath == StripFileScheme(location.uri)
        targetPath == PathResolve(PROJECT_ROOT, filePath)
        locLine == location.range.start.line
        startLine == range.start.line
        endLine == range.end.line
    IN  IF PathResolve(PROJECT_ROOT, locPath) # targetPath THEN FALSE
        ELSE IF locLine < startLine \/ locLine > endLine THEN FALSE
        ELSE IF locLine = startLine
                /\ location.range.start.character < range.start.character THEN FALSE
        ELSE IF locLine = endLine
                /\ location.range.end.character > range.end.character THEN FALSE
        ELSE TRUE

-----------------------------------------------------------------------------
(* Symbols and findSymbol (src/unnamed/part_001:236-245)                    *)

\* A DocumentSymbol carries range and selectionRange, a SymbolInformation
\* carries location; the handlers test each field for presence.
Sym(name, range, selectionRange, location, children) ==
    [name |-> name, range |-> range, selectionRange |-> selectionRange,
     location |-> location, children |-> children]

RECURSIVE findSymbol_SiblingsFirst(_, _)
findSymbol_SiblingsFirst(symbols, name) ==
    LET named == SelectSeq(symbols, LAMBDA sym : sym.name = name)
        RECURSIVE below(_)
        below(syms) ==
            IF Len(syms) = 0 THEN Absent
            ELSE LET found == findSymbol_SiblingsFirst(Head(syms).children, name)
                 IN  IF IsSet(found) THEN found ELSE below(Tail(syms))
    IN  IF Len(named) > 0 THEN Present(Head(named)) ELSE below(symbols)

RECURSIVE findSymbol(_, _)
findSymbol(symbols, name) ==
    IF Len(symbols) = 0 THEN Absent
    ELSE LET sym == Head(symbols)
         IN  IF sym.name = name THEN Present(sym)
             ELSE LET found == findSymbol(sym.children, name)
                  IN  IF IsSet(found) THEN found
                      ELSE findSymbol(Tail(symbols), name)

-----------------------------------------------------------------------------
(* Tasks and responses                                                      *)

\* What a call hands back.  outcome "result" is a tool result without the
\* error flag, "isError" the result built by the catch of the call-tool
\* handler, "returned"/"rejected" the settled promise of a client method
\* called directly.
Resp(outcome, text) ==
    [outcome |-> outcome, text |-> text, sourceFunction |-> "", targetFunction |-> "",
     count |-> 0, locations |-> <<>>]

NoResp == Resp("none", "")

IdleTask(resp) ==
    [pc |-> "idle", tool |-> "none", op |-> "none", file |-> <<>>,
     sourceFile |-> <<>>, sourceFunction |-> "", targetFile |-> <<>>, targetFunction |-> "",
     query |-> <<>>, step |-> 0, sourceSym |-> Absent, position |-> Absent, resp |-> resp]

Thrown_Rethrown(task, message) == IdleTask(Resp("rejected", message))

\* A rejection below the tool boundary: the catch of the call-tool handler
\* (part_001:315-320) turns it into an error-flagged result; a client method
\* called directly rejects to its caller.
Thrown(task, message) ==
    IdleTask(IF task.tool = "none" THEN Resp("rejected", message)
             ELSE Resp("isError", message))

Returned(task, text) ==
    IdleTask(IF task.tool = "none" THEN Resp("returned", text) ELSE Resp("result", text))

\* The task calls a client query method, whose first statement is
\* `await this.ensureInitialized()`.
BeginQuery(task, op, filePath) ==
    [task EXCEPT !.pc = "ensureInitialized", !.op = op, !.file = filePath]

CanStart(t) == tasks[t].pc = "idle" /\ calls < MaxCalls

-----------------------------------------------------------------------------
(* LspClient (src/src/lspClient.ts)                                         *)

\* Line 114: console.error(`Failed to initialize LSP: ...`)
InitFailLine == <<"Failed to initialize LSP">>

\* Line 186: console.error(`Failed to open file: ...`), for the file of uri.
OpenFailLine(uri) == <<"Failed to open file", uri>>

\* Where a task goes on when initialize() has returned: a direct caller gets
\* the promise's value, ensureInitialized() returns into the query method,
\* whose next statement is `await this.didOpen(filePath)`.
AfterInitialize(task) ==
    IF task.op = "initialize" THEN Returned(task, "initialized")
    ELSE [task EXCEPT !.pc = "didOpen"]

\* Lines 61-108 of initialize(): the parameters are built and the initialize
\* request is handed to the connection; the method suspends on its response.
SendInitialize(t, task) ==
    /\ wire' = [wire EXCEPT !.initialize = @ + 1]
    /\ tasks' = [tasks EXCEPT ![t] = [task EXCEPT !.pc = "awaitInitialize"]]

initialize_NoGuard(t, task) == SendInitialize(t, task)

\* initialize(), up to its first await (lines 58-108).
initialize(t, task) ==
    IF isInitialized
    THEN /\ tasks' = [tasks EXCEPT ![t] = AfterInitialize(task)]
         /\ UNCHANGED wire
    ELSE SendInitialize(t, task)

ensureInitialized_Skipped(t, task) ==
    /\ tasks' = [tasks EXCEPT ![t] = [task EXCEPT !.pc = "didOpen"]]
    /\ UNCHANGED wire

\* ensureInitialized() (lines 197-201), called first by every query method.
ensureInitialized(t, task) ==
    IF ~isInitialized
    THEN initialize(t, task)
    ELSE /\ tasks' = [tasks EXCEPT ![t] = [task EXCEPT !.pc = "didOpen"]]
         /\ UNCHANGED wire

\* The task runs on, without suspending, from the start of a call or from a
\* settled await to its next await: a query method starts by calling
\* ensureInitialized(), which reads the flag and may call initialize(), both
\* in the same turn.
RunToAwait(t, task) ==
    CASE task.pc = "ensureInitialized" -> ensureInitialized(t, task)
      [] task.pc = "initialize" -> initialize(t, task)
      [] OTHER -> /\ tasks' = [tasks EXCEPT ![t] = task]
                  /\ UNCHANGED wire

\* The catch of initialize() has logged and rethrown (lines 113-116) below
\* a query method: the rejection reaches the caller of the method in a later
\* turn than the log, through the awaits of ensureInitialized() (line 199),
\* of the query method and of the handler.
InitializeFailed(task) == [task EXCEPT !.pc = "initializeFailed"]

\* Where a task goes on when initialize() has failed: the log and the throw
\* of lines 114-115 reject the promise of a direct call in the same turn;
\* below a query method the rejection has the awaits above it to pass.
AfterInitializeFailed(task) ==
    IF task.op = "initialize" THEN Thrown(task, "Failed to initialize LSP")
    ELSE InitializeFailed(task)

\* The initialize request settles (line 108).  On success the initialized
\* notification is handed to the connection (line 110); on failure the catch
\* logs and rethrows (lines 113-116).
InitializeResponse(t) ==
    /\ tasks[t].pc = "awaitInitialize"
    /\ \E ok \in BOOLEAN :
         IF ok
         THEN /\ wire' = [wire EXCEPT !.initialized = @ + 1]
              /\ tasks' = [tasks EXCEPT ![t].pc = "awaitInitialized"]
              /\ UNCHANGED errLog
         ELSE /\ errLog' = errLog \cup {InitFailLine}
              /\ tasks' = [tasks EXCEPT ![t] = AfterInitializeFailed(tasks[t])]
              /\ UNCHANGED wire
    /\ UNCHANGED <<isInitialized, openFiles, calls, fn>>

InitializedSent_FlagOnFailure(t) ==
    /\ tasks[t].pc = "awaitInitialized"
    /\ \E ok \in BOOLEAN :
         IF ok
         THEN /\ isInitialized' = TRUE
              /\ tasks' = [tasks EXCEPT ![t] = AfterInitialize(tasks[t])]
              /\ UNCHANGED errLog
         ELSE /\ errLog' = errLog \cup {InitFailLine}
              /\ tasks' = [tasks EXCEPT ![t] = AfterInitializeFailed(tasks[t])]
              /\ isInitialized' = TRUE
    /\ UNCHANGED <<openFiles, wire, calls, fn>>

\* The write of the initialized notification settles (line 110): the flag is
\* set only then (line 111).
InitializedSent(t) ==
    /\ tasks[t].pc = "awaitInitialized"
    /\ \E ok \in BOOLEAN :
         IF ok
         THEN /\ isInitialized' = TRUE
              /\ tasks' = [tasks EXCEPT ![t] = AfterInitialize(tasks[t])]
              /\ UNCHANGED errLog
         ELSE /\ errLog' = errLog \cup {InitFailLine}
              /\ tasks' = [tasks EXCEPT ![t] = AfterInitializeFailed(tasks[t])]
              /\ UNCHANGED isInitialized
    /\ UNCHANGED <<openFiles, wire, calls, fn>>

\* The query request of the method is handed to the connection (lines
\* 122-129, 135-143, 149-156, 162-166).
QuerySent(w, task) == [w EXCEPT !.query[UriOf(task.file)] = @ + 1]

\* didOpen() has returned: the method resumes from `await this.didOpen(filePath)`
\* (lines 121, 134, 148, 161) in a later turn than the one in which didOpen()
\* returned.
AfterDidOpen(task) == [task EXCEPT !.pc = "sendQuery"]

AlreadyOpen_Never(uri) == FALSE

AlreadyOpen_Always(uri) == TRUE

\* Line 172: this.openFiles.has(uri)
AlreadyOpen(uri) == uri \in openFiles

\* didOpen(), up to its return of line 172 or its first await (lines
\* 169-175).
DidOpen(t) ==
    /\ tasks[t].pc = "didOpen"
    /\ IF AlreadyOpen(UriOf(tasks[t].file))
       THEN tasks' = [tasks EXCEPT ![t] = AfterDidOpen(tasks[t])]
       ELSE tasks' = [tasks EXCEPT ![t].pc = "awaitReadFile"]
    /\ UNCHANGED <<isInitialized, openFiles, wire, errLog, calls, fn>>

ReadFileDone_Throws(t) ==
    /\ tasks[t].pc = "awaitReadFile"
    /\ \E ok \in BOOLEAN :
         IF ok
         THEN /\ wire' = [wire EXCEPT !.didOpen[UriOf(tasks[t].file)] = @ + 1]
              /\ tasks' = [tasks EXCEPT ![t].pc = "awaitDidOpen"]
              /\ UNCHANGED errLog
         ELSE /\ errLog' = errLog \cup {OpenFailLine(UriOf(tasks[t].file))}
              /\ tasks' = [tasks EXCEPT ![t] = Thrown(tasks[t], "read failed")]
              /\ UNCHANGED wire
    /\ UNCHANGED <<isInitialized, openFiles, calls, fn>>

\* fs.readFile settles (line 175).  On success the didOpen notification is
\* handed to the connection (line 176); on failure the catch logs (line 186)
\* and didOpen() returns.
ReadFileDone(t) ==
    /\ tasks[t].pc = "awaitReadFile"
    /\ \E ok \in BOOLEAN :
         IF ok
         THEN /\ wire' = [wire EXCEPT !.didOpen[UriOf(tasks[t].file)] = @ + 1]
              /\ tasks' = [tasks EXCEPT ![t].pc = "awaitDidOpen"]
              /\ UNCHANGED errLog
         ELSE /\ errLog' = errLog \cup {OpenFailLine(UriOf(tasks[t].file))}
              /\ tasks' = [tasks EXCEPT ![t] = AfterDidOpen(tasks[t])]
              /\ UNCHANGED wire
    /\ UNCHANGED <<isInitialized, openFiles, calls, fn>>

\* The write of the didOpen notification settles (line 176).  On success the
\* uri joins openFiles (line 184); on failure the catch logs (line 186).
\* Either way didOpen() returns.
DidOpenSent(t) ==
    /\ tasks[t].pc = "awaitDidOpen"
    /\ \E ok \in BOOLEAN :
         IF ok
         THEN /\ openFiles' = openFiles \cup {UriOf(tasks[t].file)}
              /\ UNCHANGED errLog
         ELSE /\ errLog' = errLog \cup {OpenFailLine(UriOf(tasks[t].file))}
              /\ UNCHANGED openFiles
    /\ tasks' = [tasks EXCEPT ![t] = AfterDidOpen(tasks[t])]
    /\ UNCHANGED <<isInitialized, wire, calls, fn>>

\* The rejection of initialize() arrives: at the catch of the call-tool
\* handler (part_001:315-320), or at the direct caller of a query method.
InitializeRejected(t) ==
    /\ tasks[t].pc = "initializeFailed"
    /\ tasks' = [tasks EXCEPT ![t] = Thrown(tasks[t], "Failed to initialize LSP")]
    /\ UNCHANGED <<isInitialized, openFiles, wire, errLog, calls, fn>>

\* The method resumes after `await this.didOpen(filePath)` and hands its
\* request to the connection, on whose response it suspends.
SendQuery(t) ==
    /\ tasks[t].pc = "sendQuery"
    /\ wire' = QuerySent(wire, tasks[t])
    /\ tasks' = [tasks EXCEPT ![t].pc = "awaitQuery"]
    /\ UNCHANGED <<isInitialized, openFiles, errLog, calls, fn>>

-----------------------------------------------------------------------------
(* The match loop of handleSearchInFile (src/unnamed/part_001:204-214).    *)
(* A string is a sequence of characters.                                   *)

\* content.split('\n'): the pieces between the newlines, empty ones kept.
RECURSIVE SplitLines(_, _)
SplitLines(content, line) ==
    IF Len(content) = 0 THEN <<line>>
    ELSE IF Head(content) = "\n" THEN <<line>> \o SplitLines(Tail(content), <<>>)
         ELSE SplitLines(Tail(content), Append(line, Head(content)))

\* query occurs in line at the 0-based index k.
OccursAt(line, query, k) ==
    /\ k + Len(query) <= Len(line)
    /\ SubSeq(line, k + 1, k + Len(query)) = query

IndexOf_SkipMatch(line, query, position) ==
    LET from == IF position = 0 THEN 0
                ELSE IF position - 1 + Len(query) > Len(line) THEN Len(line)
                     ELSE position - 1 + Len(query)
        found == { k \in from..Len(line) : OccursAt(line, query, k) }
    IN  IF found = {} THEN -1 ELSE CHOOSE k \in found : \A j \in found : k <= j

\* line.indexOf(query, position): the first index at or after position,
\* clamped to the length of the line, at which query occurs; -1 if none.
IndexOf(line, query, position) ==
    LET from == IF position > Len(line) THEN Len(line) ELSE position
        found == { k \in from..Len(line) : OccursAt(line, query, k) }
    IN  IF found = {} THEN -1 ELSE CHOOSE k \in found : \A j \in found : k <= j

IsSpace(c) == c \in {" ", "\n"}

\* line.trim(): the line without its leading and trailing white space.
RECURSIVE Trim(_)
Trim(line) ==
    IF Len(line) = 0 THEN line
    ELSE IF IsSpace(Head(line)) THEN Trim(Tail(line))
    ELSE IF IsSpace(line[Len(line)]) THEN Trim(SubSeq(line, 1, Len(line) - 1))
    ELSE line

\* The heap of the process, counted in matches: the loop dies in the model
\* when it has pushed this many and goes on pushing.  A content of
\* MaxContent characters has at most MaxContent + 1 places.
MaxMatches == MaxContent + 2

\* The locals of handleSearchInFile at the head of its loops.
SearchStart(content, query) ==
    [content |-> content, query |-> query, lines |-> SplitLines(content, <<>>),
     i |-> 0, index |-> -1, matches |-> <<>>, pc |-> "for"]

\* Lines 207-209: the next line is taken and searched from its start.
AfterSearchLine(st) ==
    [st EXCEPT !.index = IndexOf(st.lines[st.i + 1], st.query, 0), !.pc = "while"]

\* Lines 211-212: a match is pushed and the search resumes one character
\* past its start.
AfterSearchMatch(st) ==
    LET line == st.lines[st.i + 1]
    IN  [st EXCEPT
           !.matches = Append(@, [line |-> st.i, character |-> st.index, text |-> Trim(line)]),
           !.index = IndexOf(line, st.query, st.index + 1)]

\* One turn of the loops of lines 207-214, from the locals st.
SearchStep(st) ==
    CASE st.pc = "for" /\ st.i < Len(st.lines) -> AfterSearchLine(st)
      [] st.pc = "for" /\ st.i >= Len(st.lines) -> [st EXCEPT !.pc = "done"]
      [] st.pc = "while" /\ st.index = -1 -> [st EXCEPT !.i = @ + 1, !.pc = "for"]
      [] st.pc = "while" /\ st.index # -1 /\ Len(st.matches) < MaxMatches -> AfterSearchMatch(st)
      [] st.pc = "while" /\ st.index # -1 /\ Len(st.matches) >= MaxMatches ->
            [st EXCEPT !.pc = "outOfMemory"]
      [] OTHER -> st

\* The loops run to their end: the matches are ready to be returned, or the
\* heap is exhausted.
RECURSIVE RunSearch(_)
RunSearch(st) ==
    IF st.pc \in {"done", "outOfMemory"} THEN st ELSE RunSearch(SearchStep(st))

-----------------------------------------------------------------------------
(* Tool handlers (src/unnamed/part_001)                                     *)

\* A tool result that names the source function only (line 248).
NamingSource(task, text) ==
    [Resp("result", text) EXCEPT !.sourceFunction = task.sourceFunction]

\* A tool result that names the target function only (line 255).
NamingTarget(task, text) ==
    [Resp("result", text) EXCEPT !.targetFunction = task.targetFunction]

\* A tool result that names the two functions of a check_function_call
\* (lines 290, 294).
Naming(task, text) ==
    [Resp("result", text) EXCEPT !.sourceFunction = task.sourceFunction,
                                 !.targetFunction = task.targetFunction]

\* handleGetDefinition after the await of line 160 (lines 162-180).
AfterDefinition(task, result) ==
    IF IsFalsy(result) THEN IdleTask(Resp("result", "No definition found."))
    ELSE IdleTask([Resp("result", "File/Line/Character") EXCEPT !.locations = result.val])

\* handleGetReferences after the await of line 191 (lines 192-194): the
\* answer is serialised as it is, null included.
AfterGetReferences(task, result) ==
    IF result.isNull THEN IdleTask(Resp("result", "null"))
    ELSE IdleTask([Resp("result", "JSON") EXCEPT !.locations = result.val])

AfterSourceSymbols_ThrowOnMiss(task, sourceSymbols) ==
    IF IsFalsy(sourceSymbols)
    THEN IdleTask(Resp("result", "Source file symbols not found"))
    ELSE LET sourceSym == findSymbol(sourceSymbols.val, task.sourceFunction)
         IN  IF ~IsSet(sourceSym)
             THEN Thrown(task, "Source function not found")
             ELSE BeginQuery([task EXCEPT !.sourceSym = sourceSym, !.step = 2],
                             "getDocumentSymbols", task.targetFile)

\* handleCheckFunctionCall after the await of line 233 (lines 234-251).
AfterSourceSymbols(task, sourceSymbols) ==
    IF IsFalsy(sourceSymbols)
    THEN IdleTask(Resp("result", "Source file symbols not found"))
    ELSE LET sourceSym == findSymbol(sourceSymbols.val, task.sourceFunction)
         IN  IF ~IsSet(sourceSym)
             THEN IdleTask(NamingSource(task, "Source function not found"))
             ELSE BeginQuery([task EXCEPT !.sourceSym = sourceSym, !.step = 2],
                             "getDocumentSymbols", task.targetFile)

\* Lines 259-270: the position the references are asked for.
TargetPosition(targetSym) ==
    IF IsSet(targetSym.selectionRange) THEN Present(targetSym.selectionRange[1].start)
    ELSE IF IsSet(targetSym.location) THEN Present(targetSym.location[1].range.start)
    ELSE Absent

AfterTargetSymbols_AsksAnyway(task, targetSymbols) ==
    BeginQuery([task EXCEPT !.step = 3, !.position = Present(Pos(0, 0))],
               "getReferences", task.targetFile)

\* handleCheckFunctionCall after the await of line 251 (lines 252-272).
AfterTargetSymbols(task, targetSymbols) ==
    IF IsFalsy(targetSymbols)
    THEN IdleTask(Resp("result", "Target file symbols not found"))
    ELSE LET targetSym == findSymbol(targetSymbols.val, task.targetFunction)
         IN  IF ~IsSet(targetSym)
             THEN IdleTask(NamingTarget(task, "Target function not found"))
             ELSE IF ~IsSet(TargetPosition(targetSym[1]))
             THEN IdleTask(Resp("result", "Could not determine location of target symbol"))
             ELSE BeginQuery([task EXCEPT !.step = 3, !.position = TargetPosition(targetSym[1])],
                             "getReferences", task.targetFile)

\* Lines 277-284: the range the references are filtered by.
SourceRange(sourceSym) ==
    IF IsSet(sourceSym.range) THEN sourceSym.range
    ELSE IF IsSet(sourceSym.location) THEN Present(sourceSym.location[1].range)
    ELSE Absent

\* Line 286: references.filter(ref => isLocationInRange(ref, sourceRange, sourceFile))
FilterCalls(references, sourceRange, sourceFile) ==
    SelectSeq(references, LAMBDA ref : isLocationInRange(ref, sourceRange, sourceFile))

Verdict_AtLeastTwo(task, found) ==
    IF Len(found) > 1
    THEN [Naming(task, "Yes, calls") EXCEPT !.count = Len(found), !.locations = found]
    ELSE Naming(task, "No direct call found")

\* Lines 288-296: the verdict on the filtered references.
Verdict(task, found) ==
    IF Len(found) > 0
    THEN [Naming(task, "Yes, calls") EXCEPT !.count = Len(found), !.locations = found]
    ELSE Naming(task, "No direct call found")

\* handleCheckFunctionCall after the await of line 272 (lines 274-296).
AfterReferences(task, references) ==
    IF IsFalsy(references)
    THEN IdleTask(Resp("result", "No references found for target function"))
    ELSE LET sourceRange == SourceRange(task.sourceSym[1])
         IN  IF ~IsSet(sourceRange)
             THEN IdleTask(Resp("result", "Could not determine range of source symbol"))
             ELSE IdleTask(Verdict(task, FilterCalls(references.val, sourceRange[1],
                                                     task.sourceFile)))

\* What the task does with the answer of its query.
Continue(task, answer) ==
    CASE task.tool = "get_definition" -> AfterDefinition(task, answer)
      [] task.tool = "get_references" -> AfterGetReferences(task, answer)
      [] task.tool = "check_function_call" /\ task.step = 1 -> AfterSourceSymbols(task, answer)
      [] task.tool = "check_function_call" /\ task.step = 2 -> AfterTargetSymbols(task, answer)
      [] task.tool = "check_function_call" /\ task.step = 3 -> AfterReferences(task, answer)
      [] OTHER -> Returned(task, "answer")

\* What the server may answer to the query of a client method.
AnswersOf(op, W) ==
    CASE op = "getDocumentSymbols" -> W.outlines
      [] op = "getReferences" -> W.references
      [] op = "getDefinition" -> W.definitions
      [] OTHER -> W.hovers

\* The query request settles: with an answer, which the handler goes on
\* with, or with an error, which propagates to the catch of the call.
Settle(t, ok, answer) ==
    /\ tasks[t].pc = "awaitQuery"
    /\ IF ok
       THEN RunToAwait(t, Continue(tasks[t], answer))
       ELSE /\ tasks' = [tasks EXCEPT ![t] = Thrown(tasks[t], "request failed")]
            /\ UNCHANGED wire
    /\ UNCHANGED <<isInitialized, openFiles, errLog, calls>>

QueryResponse(t, W) ==
    /\ \E ok \in BOOLEAN, answer \in AnswersOf(tasks[t].op, W) : Settle(t, ok, answer)
    /\ UNCHANGED fn

\* A call starts: the task leaves idle with the locals `started` and runs
\* to its first await.
Begin(t, started) ==
    /\ CanStart(t)
    /\ calls' = calls + 1
    /\ RunToAwait(t, started)
    /\ UNCHANGED <<isInitialized, openFiles, errLog>>

Start(t, started) ==
    /\ Begin(t, started)
    /\ UNCHANGED fn

NewTask(tool) == [IdleTask(NoResp) EXCEPT !.tool = tool]

\* The arguments of a call as the schemas see them: per field, whether it
\* is a string fit for the field (a path, a name, a numeral), a string that
\* spells no number ("text"), a number, something else, or missing.
GoodArgs(fields) == [f \in fields |-> "string"]

\* The argument objects a call is made with: every field a fit string, or
\* one field of another of the kinds: a string that spells no number, a
\* number, a value of another type, or missing.
ArgShapes(fields, kinds) ==
    {GoodArgs(fields)} \cup { [GoodArgs(fields) EXCEPT ![f] = k] : f \in fields, k \in kinds }

\* z.string(): any string passes.
ZString(kind) == kind \in {"string", "text"}

\* z.union([z.string(), z.number()]): any string and any number pass; the
\* value then goes through Number(), which gives NaN for a string that
\* spells no number, and the parse succeeds all the same.
ZStringOrNumber(kind) == kind \in {"string", "text", "number"}

PositionFields == {"filePath", "line", "character"}

\* The schema of get_definition and get_references (lines 153-157, 184-188).
ParsePosition(args) ==
    ZString(args.filePath) /\ ZStringOrNumber(args.line) /\ ZStringOrNumber(args.character)

SearchFields == {"filePath", "query"}

\* The schema of search_in_file (lines 198-201).
ParseSearch(args) == ZString(args.filePath) /\ ZString(args.query)

CheckFields == {"sourceFile", "sourceFunction", "targetFile", "targetFunction"}

\* The schema of check_function_call (lines 225-230).
ParseCheck(args) == \A f \in CheckFields : ZString(args[f])

\* argsSchema.parse(args) throws on a missing or malformed field.
ValidationError(tool) == Thrown(NewTask(tool), "validation")

\* Call of get_definition: lines 304-305, 153-160.
GetDefinitionTask(args, filePath) ==
    IF ParsePosition(args)
    THEN BeginQuery(NewTask("get_definition"), "getDefinition", filePath)
    ELSE ValidationError("get_definition")

HandleGetDefinition(t, W) ==
    \E args \in ArgShapes(PositionFields, W.kinds), filePath \in W.files :
        Start(t, GetDefinitionTask(args, filePath))

\* Call of get_references: lines 306-307, 184-191.
GetReferencesTask(args, filePath) ==
    IF ParsePosition(args)
    THEN BeginQuery(NewTask("get_references"), "getReferences", filePath)
    ELSE ValidationError("get_references")

HandleGetReferences(t, W) ==
    \E args \in ArgShapes(PositionFields, W.kinds), filePath \in W.files :
        Start(t, GetReferencesTask(args, filePath))

\* Call of search_in_file: lines 308-309, 198-203.
SearchInFileTask(args, filePath, query) ==
    IF ParseSearch(args)
    THEN [NewTask("search_in_file") EXCEPT !.pc = "awaitSearchRead", !.file = filePath,
                                           !.query = query]
    ELSE ValidationError("search_in_file")

HandleSearchInFile(t, W) ==
    \E args \in ArgShapes(SearchFields, W.kinds), filePath \in W.files, query \in W.queries :
        Start(t, SearchInFileTask(args, filePath, query))

\* The match loop runs in one turn (lines 204-214, no await): the call
\* returns its matches when the loop ends.  When it does not end, no other
\* callback runs meanwhile and the process is aborted when the heap is
\* exhausted, with every call in flight.
AfterSearch(t, content) ==
    IF RunSearch(SearchStart(content, tasks[t].query)).pc = "done"
    THEN [tasks EXCEPT ![t] = Returned(tasks[t], "Found matches")]
    ELSE [u \in Tasks |-> [tasks[u] EXCEPT !.pc = IF u = t THEN "outOfMemory" ELSE "aborted"]]

SearchReadDone_MarksOpen(t, W) ==
    /\ tasks[t].pc = "awaitSearchRead"
    /\ \E ok \in BOOLEAN, content \in W.contents :
         tasks' = IF ok THEN AfterSearch(t, content)
                  ELSE [tasks EXCEPT ![t] = Thrown(tasks[t], "read failed")]
    /\ openFiles' = openFiles \cup {UriOf(tasks[t].file)}
    /\ UNCHANGED <<isInitialized, wire, errLog, calls, fn>>

\* fs.readFile of search_in_file settles (line 203): the lines are searched
\* and the matches reported (lines 204-221), or the error reaches the catch
\* of the call.
SearchReadDone(t, W) ==
    /\ tasks[t].pc = "awaitSearchRead"
    /\ \E ok \in BOOLEAN, content \in W.contents :
         tasks' = IF ok THEN AfterSearch(t, content)
                  ELSE [tasks EXCEPT ![t] = Thrown(tasks[t], "read failed")]
    /\ UNCHANGED <<isInitialized, openFiles, wire, errLog, calls, fn>>

\* Call of check_function_call: lines 310-311, 225-233.
CheckFunctionCallTask(args, sourceFile, sourceFunction, targetFile, targetFunction) ==
    IF ParseCheck(args)
    THEN BeginQuery([NewTask("check_function_call") EXCEPT
                        !.sourceFile = sourceFile, !.sourceFunction = sourceFunction,
                        !.targetFile = targetFile, !.targetFunction = targetFunction,
                        !.step = 1],
                    "getDocumentSymbols", sourceFile)
    ELSE ValidationError("check_function_call")

HandleCheckFunctionCall(t, W) ==
    \E args \in ArgShapes(CheckFields, W.kinds), sourceFile \in W.files, targetFile \in W.targets,
       sourceFunction \in W.names, targetFunction \in W.names :
        Start(t, CheckFunctionCallTask(args, sourceFile, sourceFunction, targetFile,
                                       targetFunction))

\* Call of a tool name that is not registered: lines 312-320.  The McpError
\* is thrown inside the try and caught by its catch.
HandleUnknownTool(t) ==
    Start(t, Thrown(NewTask("unknown"), "Unknown tool"))

\* A caller of the client invokes getHover(), which no tool reaches.
CallGetHover(t, W) ==
    \E filePath \in W.files : Start(t, BeginQuery(IdleTask(NoResp), "getHover", filePath))

\* A caller of the client invokes getDocumentSymbols() outside a tool.
CallGetDocumentSymbols(t, W) ==
    \E filePath \in W.files :
        Start(t, BeginQuery(IdleTask(NoResp), "getDocumentSymbols", filePath))

\* A caller of the client invokes initialize() itself.
CallInitialize(t) ==
    Start(t, [IdleTask(NoResp) EXCEPT !.pc = "initialize", !.op = "initialize"])

-----------------------------------------------------------------------------
(* What the callers pass and what the server answers                        *)

UriA == UriOf(<<"a.ts">>)

UriB == UriOf(<<"b.ts">>)

\* The declaration range of the sample symbols: lines 0 to 2, starting and
\* ending inside its first and last line.
BodyRange == Rng(Pos(0, 1), Pos(2, 1))

NameRange == Rng(Pos(0, 1), Pos(0, 2))

DocumentSymbolOf(name) == Sym(name, Present(BodyRange), Present(NameRange), Absent, <<>>)

SymbolInformationOf(name, uri) ==
    Sym(name, Absent, Absent, Present(Loc(uri, Rng(Pos(1, 0), Pos(2, 2)))), <<>>)

BareSymbolOf(name) == Sym(name, Absent, Absent, Absent, <<>>)

ClassOf(children) == Sym("C", Present(Rng(Pos(0, 0), Pos(2, 2))), Present(NameRange), Absent, children)

\* Reference tokens: before the body's start character, on an interior
\* line, on the last line within and past the end character, in two files.
RefRanges ==
    { Rng(Pos(0, 0), Pos(0, 1)), Rng(Pos(1, 0), Pos(1, 2)),
      Rng(Pos(2, 0), Pos(2, 1)), Rng(Pos(2, 1), Pos(2, 2)) }

RefLocations == { Loc(UriA, r) : r \in RefRanges } \cup { Loc(UriB, Rng(Pos(1, 0), Pos(1, 2))) }

RECURSIVE SeqsUpTo(_, _)
SeqsUpTo(S, n) ==
    IF n = 0 THEN { <<>> }
    ELSE LET shorter == SeqsUpTo(S, n - 1)
         IN  shorter \cup { Append(q, x) : q \in shorter, x \in S }

\* One check_function_call, every answer shape.
CallWorld ==
    [ files |-> { <<"a.ts">>, <<"/", "r", "a.ts">>, <<"b.ts">> },
      targets |-> { <<"a.ts">>, <<"b.ts">> },
      names |-> { "main", "add" },
      kinds |-> { "missing" },
      queries |-> { <<"a">> },
      contents |-> { <<"a">> },
      outlines |-> { Null, Some(<<>>),
                     Some(<<DocumentSymbolOf("main")>>),
                     Some(<<DocumentSymbolOf("main"), DocumentSymbolOf("add")>>),
                     Some(<<SymbolInformationOf("add", UriB), SymbolInformationOf("main", UriA)>>),
                     Some(<<BareSymbolOf("main"), ClassOf(<<DocumentSymbolOf("add")>>)>>) },
      references |-> { Null } \cup { Some(q) : q \in SeqsUpTo(RefLocations, MaxRefs) },
      definitions |-> { Null, Some(<<Loc(UriA, NameRange)>>) },
      hovers |-> { Null, Some(<<>>) } ]

\* Concurrent tasks, one answer of each shape.
World ==
    [ files |-> { <<"/", "r", "a.ts">>, <<"b.ts">> },
      targets |-> { <<"a.ts">> },
      names |-> { "main" },
      kinds |-> { "missing" },
      queries |-> { <<>>, <<"a">> },
      contents |-> { <<"a", "a">> },
      outlines |-> { Null, Some(<<DocumentSymbolOf("main")>>) },
      references |-> { Null, Some(<<>>), Some(<<Loc(UriA, Rng(Pos(1, 0), Pos(1, 2)))>>) },
      definitions |-> { Null, Some(<<Loc(UriA, NameRange)>>) },
      hovers |-> { Null, Some(<<>>) } ]

-----------------------------------------------------------------------------
(* The bridge: tool calls arriving concurrently                             *)

Init ==
    /\ isInitialized = FALSE
    /\ openFiles = {}
    /\ tasks = [t \in Tasks |-> IdleTask(NoResp)]
    /\ wire = [initialize |-> 0, initialized |-> 0,
               didOpen |-> [u \in Uris |-> 0], query |-> [u \in Uris |-> 0]]
    /\ errLog = {}
    /\ calls = 0
    /\ fn = <<>>

Next ==
    \E t \in Tasks :
        \/ HandleGetDefinition(t, World)
        \/ HandleGetReferences(t, World)
        \/ HandleSearchInFile(t, World)
        \/ HandleCheckFunctionCall(t, World)
        \/ HandleUnknownTool(t)
        \/ InitializeResponse(t)
        \/ InitializedSent(t)
        \/ InitializeRejected(t)
        \/ DidOpen(t)
        \/ ReadFileDone(t)
        \/ DidOpenSent(t)
        \/ SendQuery(t)
        \/ QueryResponse(t, World)
        \/ SearchReadDone(t, World)

Spec == Init /\ [][Next]_vars

-----------------------------------------------------------------------------
(* The bridge with calls in succession: a call starts when the previous    *)
(* one has returned.                                                        *)

Caller == 1

\* The answers of World, with each file also under its other spelling.
SeqWorld ==
    [World EXCEPT !.files = { <<"a.ts">>, <<"/", "r", "a.ts">>, <<"b.ts">> },
                  !.targets = { <<"a.ts">>, <<"b.ts">> }]

NextSeq ==
    \/ HandleGetDefinition(Caller, SeqWorld)
    \/ HandleGetReferences(Caller, SeqWorld)
    \/ HandleSearchInFile(Caller, SeqWorld)
    \/ HandleCheckFunctionCall(Caller, SeqWorld)
    \/ HandleUnknownTool(Caller)
    \/ CallGetHover(Caller, SeqWorld)
    \/ CallGetDocumentSymbols(Caller, SeqWorld)
    \/ CallInitialize(Caller)
    \/ InitializeResponse(Caller)
    \/ InitializedSent(Caller)
    \/ InitializeRejected(Caller)
    \/ DidOpen(Caller)
    \/ ReadFileDone(Caller)
    \/ DidOpenSent(Caller)
    \/ SendQuery(Caller)
    \/ QueryResponse(Caller, SeqWorld)
    \/ SearchReadDone(Caller, SeqWorld)

SpecSeq == Init /\ [][NextSeq]_vars

-----------------------------------------------------------------------------
(* One check_function_call or get_definition on a fresh bridge, with every *)
(* shape of outline and every list of references the server may answer.    *)

InitCall ==
    /\ isInitialized = FALSE
    /\ openFiles = {}
    /\ tasks = [t \in Tasks |-> IdleTask(NoResp)]
    /\ wire = [initialize |-> 0, initialized |-> 0,
               didOpen |-> [u \in Uris |-> 0], query |-> [u \in Uris |-> 0]]
    /\ errLog = {}
    /\ calls = MaxCalls - 1
    /\ fn = [seen |-> FALSE, ok |-> FALSE, task |-> IdleTask(NoResp), answer |-> Null]

\* The settling of a query, with what the handler was given kept in fn: the
\* locals of the task before the step and the answer of the server.
ObservedQueryResponse(t, W) ==
    \E ok \in BOOLEAN, answer \in AnswersOf(tasks[t].op, W) :
        /\ Settle(t, ok, answer)
        /\ fn' = [seen |-> TRUE, ok |-> ok, task |-> tasks[t], answer |-> answer]

NextCall ==
    \/ HandleCheckFunctionCall(Caller, CallWorld)
    \/ HandleGetDefinition(Caller, CallWorld)
    \/ InitializeResponse(Caller)
    \/ InitializedSent(Caller)
    \/ InitializeRejected(Caller)
    \/ DidOpen(Caller)
    \/ ReadFileDone(Caller)
    \/ DidOpenSent(Caller)
    \/ SendQuery(Caller)
    \/ ObservedQueryResponse(Caller, CallWorld)

SpecCall == InitCall /\ [][NextCall]_vars

-----------------------------------------------------------------------------
(* isLocationInRange on its own: every location and range of the grid, in  *)
(* and outside the file of the range.                                       *)

LocationUris == { UriA, UriB, FileUri(<<"/", "x", "a.ts">>) }

InitRange ==
    /\ isInitialized = FALSE
    /\ openFiles = {}
    /\ tasks = [t \in Tasks |-> IdleTask(NoResp)]
    /\ wire = [initialize |-> 0, initialized |-> 0,
               didOpen |-> [u \in Uris |-> 0], query |-> [u \in Uris |-> 0]]
    /\ errLog = {}
    /\ calls = 0
    /\ \E uri \in LocationUris, locRange \in Ranges, range \in Ranges, filePath \in FilePaths :
         fn = [location |-> Loc(uri, locRange), range |-> range, filePath |-> filePath,
               done |-> FALSE, result |-> FALSE]

CallIsLocationInRange ==
    /\ ~fn.done
    /\ fn' = [fn EXCEPT !.done = TRUE,
                        !.result = isLocationInRange(fn.location, fn.range, fn.filePath)]
    /\ UNCHANGED <<isInitialized, openFiles, tasks, wire, errLog, calls>>

NextRange == CallIsLocationInRange

SpecRange == InitRange /\ [][NextRange]_vars

-----------------------------------------------------------------------------
(* Tool calls in succession, with the argument object of the last call and *)
(* the client as that call found it kept in fn.                             *)

\* The calls of World, with every kind of faulty argument.
ArgsWorld == [World EXCEPT !.kinds = {"text", "number", "other", "missing"}]

NoArgs == [tool |-> "none", args |-> <<>>, isInitialized |-> FALSE, openFiles |-> {},
           wire |-> <<>>, errLog |-> {}]

InitArgs ==
    /\ isInitialized = FALSE
    /\ openFiles = {}
    /\ tasks = [t \in Tasks |-> IdleTask(NoResp)]
    /\ wire = [initialize |-> 0, initialized |-> 0,
               didOpen |-> [u \in Uris |-> 0], query |-> [u \in Uris |-> 0]]
    /\ errLog = {}
    /\ calls = 0
    /\ fn = NoArgs

ObservedCall(t, tool, args, started) ==
    /\ Begin(t, started)
    /\ fn' = [tool |-> tool, args |-> args, isInitialized |-> isInitialized,
              openFiles |-> openFiles, wire |-> wire, errLog |-> errLog]

ObservedGetDefinition(t, W) ==
    \E args \in ArgShapes(PositionFields, W.kinds), filePath \in W.files :
        ObservedCall(t, "get_definition", args, GetDefinitionTask(args, filePath))

ObservedGetReferences(t, W) ==
    \E args \in ArgShapes(PositionFields, W.kinds), filePath \in W.files :
        ObservedCall(t, "get_references", args, GetReferencesTask(args, filePath))

ObservedSearchInFile(t, W) ==
    \E args \in ArgShapes(SearchFields, W.kinds), filePath \in W.files, query \in W.queries :
        ObservedCall(t, "search_in_file", args, SearchInFileTask(args, filePath, query))

ObservedCheckFunctionCall(t, W) ==
    \E args \in ArgShapes(CheckFields, W.kinds), sourceFile \in W.files, targetFile \in W.targets,
       sourceFunction \in W.names, targetFunction \in W.names :
        ObservedCall(t, "check_function_call", args,
                     CheckFunctionCallTask(args, sourceFile, sourceFunction, targetFile,
                                           targetFunction))

NextArgs ==
    \/ ObservedGetDefinition(Caller, ArgsWorld)
    \/ ObservedGetReferences(Caller, ArgsWorld)
    \/ ObservedSearchInFile(Caller, ArgsWorld)
    \/ ObservedCheckFunctionCall(Caller, ArgsWorld)
    \/ InitializeResponse(Caller)
    \/ InitializedSent(Caller)
    \/ InitializeRejected(Caller)
    \/ DidOpen(Caller)
    \/ ReadFileDone(Caller)
    \/ DidOpenSent(Caller)
    \/ SendQuery(Caller)
    \/ QueryResponse(Caller, ArgsWorld)
    \/ SearchReadDone(Caller, ArgsWorld)

SpecArgs == InitArgs /\ [][NextArgs]_vars

-----------------------------------------------------------------------------
(* The match loop of handleSearchInFile (src/unnamed/part_001:204-221) on  *)
(* its own: every content and query up to the bounds.  A string is a       *)
(* sequence of characters.                                                  *)

Chars == {"a", " ", "\n"}

Strings(n) == SeqsUpTo(Chars, n)

InitSearch ==
    /\ isInitialized = FALSE
    /\ openFiles = {}
    /\ tasks = [t \in Tasks |-> IdleTask(NoResp)]
    /\ wire = [initialize |-> 0, initialized |-> 0,
               didOpen |-> [u \in Uris |-> 0], query |-> [u \in Uris |-> 0]]
    /\ errLog = {}
    /\ calls = 0
    /\ \E content \in Strings(MaxContent), query \in Strings(MaxQuery) :
         fn = SearchStart(content, query)

\* Lines 207-209: the next line is taken and searched from its start.
SearchLine ==
    /\ fn.pc = "for"
    /\ fn.i < Len(fn.lines)
    /\ fn' = SearchStep(fn)
    /\ UNCHANGED <<isInitialized, openFiles, tasks, wire, errLog, calls>>

\* Lines 210-212: a match is pushed and the search resumes one character
\* past its start.
SearchMatch ==
    /\ fn.pc = "while"
    /\ fn.index # -1
    /\ Len(fn.matches) < MaxMatches
    /\ fn' = SearchStep(fn)
    /\ UNCHANGED <<isInitialized, openFiles, tasks, wire, errLog, calls>>

\* Lines 210-212, with the heap full: the push fails and the process dies
\* ("JavaScript heap out of memory"); no response is returned.
SearchOutOfMemory ==
    /\ fn.pc = "while"
    /\ fn.index # -1
    /\ Len(fn.matches) >= MaxMatches
    /\ fn' = SearchStep(fn)
    /\ UNCHANGED <<isInitialized, openFiles, tasks, wire, errLog, calls>>

\* Lines 210, 207: no further match on the line; on to the next line.
SearchLineDone ==
    /\ fn.pc = "while"
    /\ fn.index = -1
    /\ fn' = SearchStep(fn)
    /\ UNCHANGED <<isInitialized, openFiles, tasks, wire, errLog, calls>>

\* Lines 207, 216-221: past the last line, the matches are returned.
SearchReturn ==
    /\ fn.pc = "for"
    /\ fn.i >= Len(fn.lines)
    /\ fn' = SearchStep(fn)
    /\ UNCHANGED <<isInitialized, openFiles, tasks, wire, errLog, calls>>

NextSearch ==
    SearchLine \/ SearchMatch \/ SearchOutOfMemory \/ SearchLineDone \/ SearchReturn

SpecSearch == InitSearch /\ [][NextSearch]_vars

\* The loops are synchronous code: once entered they run on, turn after
\* turn, until they return or the process dies.
SpecSearchFair == SpecSearch /\ WF_vars(NextSearch)

-----------------------------------------------------------------------------
(* findSymbol on its own: every outline of up to MaxNodes symbols, nested  *)
(* in every way, and every name.                                            *)

SymbolNames == {"main", "add"}

\* The outlines of n symbols in all: a first symbol with k - 1 symbols
\* below it, followed by an outline of n - k symbols.
RECURSIVE Outlines(_)
Outlines(n) ==
    IF n = 0 THEN { <<>> }
    ELSE UNION { { <<Sym(name, Absent, Absent, Absent, children)>> \o rest :
                     name \in SymbolNames, children \in Outlines(k - 1),
                     rest \in Outlines(n - k) } : k \in 1..n }

\* The outline with each symbol given the range of a line of its own, so
\* that two symbols of one name are told apart: lines number the symbols
\* as a server lists a file, a parent before its children, from line k on.
RECURSIVE Numbered(_, _)
Numbered(symbols, k) ==
    IF Len(symbols) = 0 THEN [symbols |-> <<>>, next |-> k]
    ELSE LET sym == Head(symbols)
             below == Numbered(sym.children, k + 1)
             rest == Numbered(Tail(symbols), below.next)
         IN  [symbols |-> <<[sym EXCEPT !.range = Present(Rng(Pos(k, 0), Pos(k, 0))),
                                        !.children = below.symbols]>> \o rest.symbols,
              next |-> rest.next]

InitSymbols ==
    /\ isInitialized = FALSE
    /\ openFiles = {}
    /\ tasks = [t \in Tasks |-> IdleTask(NoResp)]
    /\ wire = [initialize |-> 0, initialized |-> 0,
               didOpen |-> [u \in Uris |-> 0], query |-> [u \in Uris |-> 0]]
    /\ errLog = {}
    /\ calls = 0
    /\ \E n \in 0..MaxNodes :
         \E symbols \in Outlines(n), name \in SymbolNames \cup {"sub"} :
             fn = [symbols |-> Numbered(symbols, 0).symbols, name |-> name,
                   done |-> FALSE, result |-> Absent]

CallFindSymbol ==
    /\ ~fn.done
    /\ fn' = [fn EXCEPT !.done = TRUE, !.result = findSymbol(fn.symbols, fn.name)]
    /\ UNCHANGED <<isInitialized, openFiles, tasks, wire, errLog, calls>>

NextSymbols == CallFindSymbol

SpecSymbols == InitSymbols /\ [][NextSymbols]_vars

-----------------------------------------------------------------------------
(* Properties                                                               *)

QueryInFlight(t) == tasks[t].pc = "awaitQuery"

\* C1 as stated: two query operations in succession against one file issue
\* exactly one textDocument/didOpen for it: once two queries for a file are
\* out, one didOpen has been issued for that file.
C1_ExactlyOneOpen ==
    \A u \in Uris : wire.query[u] >= 2 => wire.didOpen[u] = 1

\* C1, amended: as long as no file-open step for the file has failed (the
\* read and the notification of the first one succeed), any number of query
\* operations in succession against it issue exactly one didOpen: the first
\* sends it, every later one sends none.
\* A file-open step that fails (the read, or the write of the notification)
\* sends nothing more, leaves the file out of openFiles and is logged; an
\* operation that finds its file in openFiles sends no didOpen, and one that
\* does not, after a failed open or not, attempts the open again.
C1_IdempotentOpen ==
    /\ [](\A u \in Uris :
            (wire.query[u] >= 1 /\ OpenFailLine(u) \notin errLog) => wire.didOpen[u] = 1)
    /\ [][\A t \in Tasks :
            LET u == UriOf(tasks[t].file)
            IN  /\ (tasks[t].pc = "didOpen" /\ tasks'[t] # tasks[t]) =>
                     /\ wire' = wire
                     /\ tasks'[t].pc = IF u \in openFiles THEN "sendQuery" ELSE "awaitReadFile"
                /\ ( /\ tasks[t].pc \in {"awaitReadFile", "awaitDidOpen"}
                     /\ tasks'[t].pc = "sendQuery"
                     /\ u \notin openFiles' ) =>
                         /\ OpenFailLine(u) \in errLog'
                         /\ openFiles' = openFiles
                         /\ wire' = wire
                /\ (tasks[t].pc = "awaitDidOpen" /\ tasks'[t] # tasks[t]) =>
                     (u \in openFiles' \/ OpenFailLine(u) \in errLog')
         ]_vars

\* Two calls, two queries against a.ts, one didOpen.
C1_Witness ==
    /\ calls = 2
    /\ wire.query[UriA] = 2
    /\ wire.didOpen[UriA] = 1
    /\ OpenFailLine(UriA) \notin errLog

\* C2 as stated: whenever a query for a document is out, the document is a
\* member of openFiles.
C2_OpenBeforeQuery ==
    \A t \in Tasks : QueryInFlight(t) => UriOf(tasks[t].file) \in openFiles

\* C2, amended: whenever a query for a document is out, the document is a
\* member of openFiles unless a file-open step for it has failed (read or
\* notification failure, logged and swallowed).
C2_OpenOrFailedBeforeQuery ==
    \A t \in Tasks :
        QueryInFlight(t) =>
            \/ UriOf(tasks[t].file) \in openFiles
            \/ OpenFailLine(UriOf(tasks[t].file)) \in errLog

\* Two queries out at once: one for an opened document, one for a document
\* whose open failed.
C2_Witness ==
    \E t, u \in Tasks :
        /\ QueryInFlight(t) /\ UriOf(tasks[t].file) \in openFiles
        /\ OpenFailLine(UriOf(tasks[t].file)) \notin errLog
        /\ QueryInFlight(u) /\ UriOf(tasks[u].file) \notin openFiles

\* The task is in initialize(), or the failure of its initialize() is on
\* its way to the caller.
InHandshake(task) == task.pc \in {"awaitInitialize", "awaitInitialized", "initializeFailed"}

\* C3: once initialize() has succeeded, a later call of it, direct or through
\* ensureInitialized(), sends no initialize request and no initialized
\* notification and leaves the flag set; a direct call returns at once with
\* openFiles, the wire and the log as they were.
C3_InitializeIdempotent ==
    [][isInitialized =>
         /\ isInitialized'
         /\ wire'.initialize = wire.initialize
         /\ wire'.initialized = wire.initialized
         /\ \A t \in Tasks : ~InHandshake(tasks'[t])
         /\ \A t \in Tasks :
              (tasks[t].pc = "idle" /\ tasks'[t].resp.text = "initialized")
                 => UNCHANGED <<openFiles, wire, errLog>>]_vars

\* A query made the handshake; the direct initialize() after it returned
\* without a second one.
C3_Witness ==
    /\ calls = 2
    /\ tasks[Caller].pc = "idle"
    /\ tasks[Caller].resp.outcome = "returned"
    /\ tasks[Caller].resp.text = "initialized"
    /\ wire.query[UriA] = 1
    /\ wire.initialize = 1
    /\ wire.initialized = 1

IsFailure(resp) == resp.outcome \in {"isError", "rejected"}

StartsQuery(before, after) ==
    /\ before.pc \in {"idle", "awaitQuery"}
    /\ after.pc \in {"awaitInitialize", "didOpen"}
    /\ after.op # "initialize"

\* The task awaits a step of the handshake in initialize().
AwaitsHandshake(task) == task.pc \in {"awaitInitialize", "awaitInitialized"}

\* The handshake of the task has failed: the failure is with the caller or
\* on its way to it.
FailedHandshake(task) ==
    \/ task.pc = "initializeFailed"
    \/ task.pc = "idle" /\ task.resp.text = "Failed to initialize LSP"

\* C4: the step in which a handshake fails logs the failure, leaves the flag
\* false and sends nothing; a direct call of initialize() is rejected in
\* that step, a query operation in a later one.  A task leaves the
\* handshake either with the flag set, or with the
\* failure handed to its caller, the flag untouched (still false) and no
\* didOpen or query sent; a query operation that starts while the flag is
\* false sends an initialize request again; the flag becomes true only in
\* the step that ends a successful handshake, and is never reset.
C4_InitFailureNotSticky ==
    [][/\ \A t \in Tasks :
            (AwaitsHandshake(tasks[t]) /\ FailedHandshake(tasks'[t])) =>
                /\ InitFailLine \in errLog'
                /\ ~isInitialized'
                /\ wire' = wire
                /\ tasks[t].op = "initialize" =>
                     /\ tasks'[t].pc = "idle"
                     /\ tasks'[t].resp.outcome = "rejected"
                     /\ tasks'[t].resp.text = "Failed to initialize LSP"
                /\ tasks[t].op # "initialize" => tasks'[t].pc = "initializeFailed"
       /\ \A t \in Tasks :
            (InHandshake(tasks[t]) /\ ~InHandshake(tasks'[t])) =>
                IF tasks'[t].pc = "idle" /\ IsFailure(tasks'[t].resp)
                THEN /\ tasks'[t].resp.text = "Failed to initialize LSP"
                     /\ InitFailLine \in errLog'
                     /\ ~isInitialized'
                     /\ wire'.query = wire.query
                     /\ wire'.didOpen = wire.didOpen
                ELSE isInitialized'
       /\ \A t \in Tasks :
            (StartsQuery(tasks[t], tasks'[t]) /\ ~isInitialized) =>
                /\ tasks'[t].pc = "awaitInitialize"
                /\ wire'.initialize = wire.initialize + 1
       /\ (~isInitialized /\ isInitialized') =>
            \E t \in Tasks : /\ tasks[t].pc = "awaitInitialized"
                             /\ ~InHandshake(tasks'[t])
                             /\ ~IsFailure(tasks'[t].resp)
                             /\ wire.initialized >= 1
       /\ isInitialized => isInitialized']_vars

\* A handshake failed, the next query made it again, and its query is out.
C4_Witness ==
    /\ InitFailLine \in errLog
    /\ isInitialized
    /\ wire.initialize = 2
    /\ calls = 2
    /\ QueryInFlight(Caller)

QueryOps == {"getDefinition", "getReferences", "getHover", "getDocumentSymbols"}

\* C5: openFiles only grows, and it grows only in the step that ends the
\* file-open of a query operation, by the uri of that operation's file, which
\* was not in it; no step of search_in_file, of a failed validation, of an
\* unknown tool or of initialize() changes it.
C5_OpenFilesMonotonic ==
    [][/\ openFiles \subseteq openFiles'
       /\ openFiles' # openFiles =>
            \E t \in Tasks :
                /\ tasks[t].pc = "awaitDidOpen"
                /\ tasks[t].op \in QueryOps
                /\ tasks[t].tool \notin {"search_in_file", "unknown"}
                /\ UriOf(tasks[t].file) \notin openFiles
                /\ openFiles' = openFiles \cup {UriOf(tasks[t].file)}
       /\ \A t \in Tasks :
            (tasks'[t] # tasks[t] /\ \/ tasks[t].tool = "search_in_file"
                                     \/ tasks[t].op = "initialize"
                                     \/ tasks'[t].resp.text \in {"validation", "Unknown tool"})
                => openFiles' = openFiles]_vars

\* A file was opened by one call, and a search_in_file after it has returned.
C5_Witness ==
    /\ openFiles = {UriA}
    /\ tasks[Caller].pc = "idle"
    /\ tasks[Caller].resp.text = "Found matches"

\* The location's document and the file of the range resolve to one path.
SamePath(location, filePath) ==
    PathResolve(PROJECT_ROOT, StripFileScheme(location.uri)) = PathResolve(PROJECT_ROOT, filePath)

\* A location positioned at p: its range starts and ends at p.
IsAt(location, p) == location.range.start = p /\ location.range.end = p

\* A token that ends on the line it starts on.
OnOneLine(location) == location.range.end.line = location.range.start.line

\* The location ends past the end of the range as line 50 tests it: it
\* starts on the last line of the range and its end character is greater
\* than the end character of the range.
EndsPast(location, range) ==
    /\ location.range.start.line = range.end.line
    /\ location.range.end.character > range.end.character

\* C6 as stated: for a location in the range's file that is positioned (that
\* starts) exactly at the start or exactly at the end of the range,
\* isLocationInRange is true; for one that starts one character before the
\* start of the range on its first line, or one character after the end of
\* the range on its last line, it is false.
C6_BoundaryPositions ==
    (fn.done /\ SamePath(fn.location, fn.filePath)) =>
        LET start == fn.location.range.start
        IN  /\ start = fn.range.start => fn.result
            /\ start = fn.range.end => fn.result
            /\ ( /\ start.line = fn.range.start.line
                 /\ start.character + 1 = fn.range.start.character ) => ~fn.result
            /\ ( /\ start.line = fn.range.end.line
                 /\ start.character = fn.range.end.character + 1 ) => ~fn.result

\* C6, amended: for a location in the range's file that starts exactly at
\* the start or exactly at the end of the range, isLocationInRange is true
\* unless the location starts on the last line of the range and its end
\* character is greater than the end character of the range: a location of
\* no width at either boundary is inside, a token that starts at the end of
\* the range is not.  For a location that starts one character before the
\* start of the range on its first line it is false; for one that starts
\* one character after the end of the range on its last line and ends on
\* that line it is false.
C6_BoundaryInclusive ==
    (fn.done /\ SamePath(fn.location, fn.filePath)) =>
        LET start == fn.location.range.start
        IN  /\ start = fn.range.start => (fn.result <=> ~EndsPast(fn.location, fn.range))
            /\ start = fn.range.end => (fn.result <=> ~EndsPast(fn.location, fn.range))
            /\ IsAt(fn.location, fn.range.start) => fn.result
            /\ IsAt(fn.location, fn.range.end) => fn.result
            /\ ( /\ start.line = fn.range.start.line
                 /\ start.character + 1 = fn.range.start.character ) => ~fn.result
            /\ ( /\ start.line = fn.range.end.line
                 /\ start.character = fn.range.end.character + 1
                 /\ OnOneLine(fn.location) ) => ~fn.result

\* A location at the end of a range that spans lines is found inside it.
C6_Witness ==
    /\ fn.done
    /\ fn.result
    /\ SamePath(fn.location, fn.filePath)
    /\ IsAt(fn.location, fn.range.end)
    /\ fn.range.start.line < fn.range.end.line
    /\ fn.range.start.character > fn.range.end.character

\* C7 as stated: isLocationInRange is true iff the location's document
\* resolves to the path of the file and the location's start lies within
\* [range.start, range.end] in line-major, then character order.
C7_StartWithinRange ==
    fn.done =>
        (fn.result <=> /\ SamePath(fn.location, fn.filePath)
                       /\ PosLeq(fn.range.start, fn.location.range.start)
                       /\ PosLeq(fn.location.range.start, fn.range.end))

\* C7, amended: isLocationInRange is true iff the location's document
\* resolves to the path of the file, the location's start line lies within
\* [range.start.line, range.end.line], its start character is not before
\* range.start.character when it starts on the first line of the range, and
\* its END character is not after range.end.character when it starts on the
\* last line of the range.
C7_StartLineEndCharacter ==
    fn.done =>
        (fn.result <=>
            /\ SamePath(fn.location, fn.filePath)
            /\ fn.location.range.start.line \in fn.range.start.line .. fn.range.end.line
            /\ fn.location.range.start.line = fn.range.start.line
                 => fn.location.range.start.character >= fn.range.start.character
            /\ fn.location.range.start.line = fn.range.end.line
                 => fn.location.range.end.character <= fn.range.end.character)

\* A token that starts inside the range on its last line and ends past the
\* end character is not found inside it.
C7_Witness ==
    /\ fn.done
    /\ ~fn.result
    /\ SamePath(fn.location, fn.filePath)
    /\ PosLeq(fn.range.start, fn.location.range.start)
    /\ PosLeq(fn.location.range.start, fn.range.end)
    /\ fn.location.range.start.line = fn.range.end.line
    /\ OnOneLine(fn.location)
    /\ fn.location.range.end.character > fn.range.end.character

\* C8: for a range whose start line is before its end line and a location of
\* the same file whose start line is strictly between them,
\* isLocationInRange is true, whatever the characters.
C8_InteriorLines ==
    ( /\ fn.done
      /\ SamePath(fn.location, fn.filePath)
      /\ fn.range.start.line < fn.location.range.start.line
      /\ fn.location.range.start.line < fn.range.end.line ) => fn.result

\* An interior-line token that starts left of the start character and ends
\* right of the end character of the range.
C8_Witness ==
    /\ fn.done
    /\ fn.result
    /\ SamePath(fn.location, fn.filePath)
    /\ fn.range.start.line < fn.location.range.start.line
    /\ fn.location.range.start.line < fn.range.end.line
    /\ fn.location.range.start.character < fn.range.start.character
    /\ fn.location.range.end.character > fn.range.end.character

\* The references step of a check_function_call has returned: fn holds the
\* locals it ran with and the answer it was given.
ReferencesAnswered ==
    /\ fn.seen /\ fn.ok
    /\ fn.task.step = 3
    /\ tasks[Caller].pc = "idle"

\* The elements of refs at the indices of `keep`, in their order.
RECURSIVE Kept(_, _, _)
Kept(refs, keep, i) ==
    IF i > Len(refs) THEN <<>>
    ELSE (IF i \in keep THEN <<refs[i]>> ELSE <<>>) \o Kept(refs, keep, i + 1)

\* C9: when both symbols were found, the source symbol has a range and the
\* references request returned a list, the result is "Yes" exactly when some
\* returned reference lies in the source file inside the source symbol's
\* range; it then carries the number of such references and lists exactly
\* them; otherwise it is "No direct call found".  Both name the two functions.
C9_VerdictFromFilteredSet ==
    ( /\ ReferencesAnswered
      /\ ~fn.answer.isNull
      /\ IsSet(SourceRange(fn.task.sourceSym[1])) ) =>
        LET refs == fn.answer.val
            sourceRange == SourceRange(fn.task.sourceSym[1])[1]
            inside == { i \in 1..Len(refs) :
                          isLocationInRange(refs[i], sourceRange, fn.task.sourceFile) }
            resp == tasks[Caller].resp
        IN  /\ resp.outcome = "result"
            /\ resp.sourceFunction = fn.task.sourceFunction
            /\ resp.targetFunction = fn.task.targetFunction
            /\ IF inside # {}
               THEN /\ resp.text = "Yes, calls"
                    /\ resp.count = Cardinality(inside)
                    /\ resp.locations = Kept(refs, inside, 1)
               ELSE /\ resp.text = "No direct call found"
                    /\ resp.locations = <<>>

\* Two references came back, one inside the source range and one outside:
\* one call is reported.
C9_Witness ==
    /\ ReferencesAnswered
    /\ ~fn.answer.isNull
    /\ Len(fn.answer.val) = 2
    /\ tasks[Caller].resp.text = "Yes, calls"
    /\ tasks[Caller].resp.count = 1
    /\ tasks[Caller].resp.locations = <<fn.answer.val[2]>>

NoReferencesFound == "No references found for target function"

\* C10 as stated: the result is "No references found" whenever the
\* references request returns nothing, be it null or an empty list.
C10_NoReferencesOnNullOrEmpty ==
    ( /\ ReferencesAnswered
      /\ (fn.answer.isNull \/ Len(fn.answer.val) = 0) )
        => tasks[Caller].resp.text = NoReferencesFound

\* C10, amended: the result is "No references found" exactly when the
\* references request returns null; an empty list is not that failure: the
\* call goes on to the source range and, when it has one, reports "No direct
\* call found", naming both functions.
C10_NoReferencesOnNullOnly ==
    ReferencesAnswered =>
        LET resp == tasks[Caller].resp
        IN  /\ (resp.text = NoReferencesFound) <=> fn.answer.isNull
            /\ resp.outcome = "result"
            /\ ( /\ ~fn.answer.isNull
                 /\ Len(fn.answer.val) = 0
                 /\ IsSet(SourceRange(fn.task.sourceSym[1])) ) =>
                    /\ resp.text = "No direct call found"
                    /\ resp.sourceFunction = fn.task.sourceFunction
                    /\ resp.targetFunction = fn.task.targetFunction

\* The references request returned an empty list and the call reported "No
\* direct call found".
C10_Witness ==
    /\ ReferencesAnswered
    /\ ~fn.answer.isNull
    /\ Len(fn.answer.val) = 0
    /\ tasks[Caller].resp.text = "No direct call found"

\* The names carried by the nodes of a symbol tree.
RECURSIVE NamesIn(_)
NamesIn(symbols) ==
    IF Len(symbols) = 0 THEN {}
    ELSE {Head(symbols).name} \cup NamesIn(Head(symbols).children) \cup NamesIn(Tail(symbols))

\* A query of the one call was answered: fn holds the locals the handler
\* ran with and the answer it was given.
Answered(tool, step) ==
    /\ fn.seen /\ fn.ok
    /\ fn.task.tool = tool
    /\ fn.task.step = step

\* The call has ended with a tool result without the error flag whose text
\* is `text`.
PlainResult(text) ==
    /\ tasks[Caller].pc = "idle"
    /\ tasks[Caller].resp.outcome = "result"
    /\ tasks[Caller].resp.text = text

\* C11: a lookup miss ends the call with a textual result without the error
\* flag: no outline (null) for the source or the target file, no symbol of
\* the requested name in the outline, a target symbol without selectionRange
\* and location, a null answer to the references request, a source symbol
\* without range and location, and for get_definition a null answer.  A
\* sourceFunction absent from the source outline yields "Source function not
\* found", naming the function.
C11_LookupMissIsResult ==
    /\ Answered("get_definition", 0) =>
         (fn.answer.isNull => PlainResult("No definition found."))
    /\ Answered("check_function_call", 1) =>
         /\ fn.answer.isNull => PlainResult("Source file symbols not found")
         /\ (~fn.answer.isNull /\ fn.task.sourceFunction \notin NamesIn(fn.answer.val)) =>
               /\ PlainResult("Source function not found")
               /\ tasks[Caller].resp.sourceFunction = fn.task.sourceFunction
    /\ Answered("check_function_call", 2) =>
         /\ fn.answer.isNull => PlainResult("Target file symbols not found")
         /\ (~fn.answer.isNull /\ fn.task.targetFunction \notin NamesIn(fn.answer.val)) =>
               /\ PlainResult("Target function not found")
               /\ tasks[Caller].resp.targetFunction = fn.task.targetFunction
         /\ ( /\ ~fn.answer.isNull
              /\ fn.task.targetFunction \in NamesIn(fn.answer.val)
              /\ ~IsSet(TargetPosition(findSymbol(fn.answer.val, fn.task.targetFunction)[1])) ) =>
               PlainResult("Could not determine location of target symbol")
    /\ Answered("check_function_call", 3) =>
         /\ fn.answer.isNull => PlainResult(NoReferencesFound)
         /\ (~fn.answer.isNull /\ ~IsSet(SourceRange(fn.task.sourceSym[1]))) =>
               PlainResult("Could not determine range of source symbol")
    /\ (fn.seen /\ fn.ok) => tasks[Caller].resp.outcome \notin {"isError", "rejected"}

\* The source outline came back without the source function, and the call
\* ended with the plain result "Source function not found".
C11_Witness ==
    /\ Answered("check_function_call", 1)
    /\ ~fn.answer.isNull
    /\ Len(fn.answer.val) > 0
    /\ fn.task.sourceFunction \notin NamesIn(fn.answer.val)
    /\ PlainResult("Source function not found")
    /\ tasks[Caller].resp.sourceFunction = fn.task.sourceFunction


\* The task of slot t ends in this step: its call returns to the host.
Ends(t) ==
    /\ tasks'[t].pc = "idle"
    /\ tasks'[t] # tasks[t]

FailureTexts == {"validation", "Unknown tool", "Failed to initialize LSP", "request failed", "read failed"}

\* C12: every tool call ends with a result or with an error-flagged result
\* that carries a text; nothing is rejected out of the call-tool handler.  A
\* call that ends in its handshake, or on a failed request or read, ends with
\* the error flag; the step that builds the error-flagged result leaves the
\* other call, the flag, openFiles and the wire as they were; and whenever a
\* slot is idle, a further tool call can start on it.
C12_FailuresCaughtAtBoundary ==
    /\ [](\A t \in Tasks :
            /\ tasks[t].resp.outcome \in {"none", "result", "isError"}
            /\ tasks[t].resp.outcome = "isError" => tasks[t].resp.text \in FailureTexts
            /\ tasks[t].resp.text \in FailureTexts => tasks[t].resp.outcome = "isError")
    /\ [](\A t \in Tasks :
            (tasks[t].pc = "idle" /\ calls < MaxCalls) =>
                /\ ENABLED HandleGetDefinition(t, World)
                /\ ENABLED HandleSearchInFile(t, World))
    /\ [][\A t \in Tasks :
            Ends(t) =>
                /\ tasks'[t].resp.outcome \in {"result", "isError"}
                /\ InHandshake(tasks[t]) =>
                     /\ tasks'[t].resp.outcome = "isError"
                     /\ tasks'[t].resp.text = "Failed to initialize LSP"
                /\ tasks'[t].resp.outcome = "isError" =>
                     /\ \A u \in Tasks \ {t} : tasks'[u] = tasks[u]
                     /\ UNCHANGED <<isInitialized, openFiles, wire>>]_vars

\* One call ended with the error flag on a failed handshake; the other made
\* the handshake again and returned a result.
C12_Witness ==
    \E t, u \in Tasks :
        /\ tasks[t].pc = "idle"
        /\ tasks[t].resp.outcome = "isError"
        /\ tasks[t].resp.text = "Failed to initialize LSP"
        /\ tasks[u].pc = "idle"
        /\ tasks[u].resp.outcome = "result"
        /\ wire.initialize = 2
        /\ isInitialized


\* C13: a call of a tool name that is not registered is answered with a
\* protocol error (the call-tool handler rejects with the McpError), never
\* with a tool result.
C13_UnknownToolIsProtocolError ==
    \A t \in Tasks :
        tasks[t].resp.text = "Unknown tool" => tasks[t].resp.outcome = "rejected"


\* A field of the argument object is missing or malformed: the file, the
\* query and the function names are strings; line and character are numbers
\* or strings that spell one.
Malformed(args) ==
    \E f \in DOMAIN args :
        IF f \in {"line", "character"} THEN args[f] \notin {"string", "number"}
        ELSE args[f] \notin {"string", "text"}

\* C14: for every tool, a call whose argument object has a missing or
\* malformed field ends, in the step it starts in, with a validation error:
\* no initialize, didOpen or query has been sent, no file read has been
\* started or logged, and the flag and openFiles are as the call found them.
C14_ValidationBeforeTraffic ==
    (fn.tool # "none" /\ Malformed(fn.args)) =>
        /\ tasks[Caller].pc = "idle"
        /\ tasks[Caller].resp.outcome = "isError"
        /\ tasks[Caller].resp.text = "validation"
        /\ wire = fn.wire
        /\ isInitialized = fn.isInitialized
        /\ openFiles = fn.openFiles
        /\ errLog = fn.errLog


\* The places of the query in the lines: line and character, 0-based.
Occurrences(lines, query) ==
    { <<l, c>> \in (0..(Len(lines) - 1)) \X (0..MaxContent) : OccursAt(lines[l + 1], query, c) }

\* (line, character) order.
Before(m, n) == m.line < n.line \/ (m.line = n.line /\ m.character < n.character)

\* C15: when search_in_file returns, its matches are the places at which the
\* query occurs in the lines of the file, overlapping ones included, each
\* reported once, in increasing (line, character) order, each with the
\* trimmed text of its line, and nothing else.
C15_AllOccurrences ==
    fn.pc = "done" =>
        /\ { <<fn.matches[k].line, fn.matches[k].character>> : k \in 1..Len(fn.matches) }
              = Occurrences(fn.lines, fn.query)
        /\ \A k \in 1..(Len(fn.matches) - 1) : Before(fn.matches[k], fn.matches[k + 1])
        /\ \A k \in 1..Len(fn.matches) :
              fn.matches[k].text = Trim(fn.lines[fn.matches[k].line + 1])

\* The query "aa" in a file whose second line is "aaa": matches at
\* characters 0 and 1 of line 1.
C15_Witness ==
    /\ fn.pc = "done"
    /\ fn.content = <<"\n", "a", "a", "a">>
    /\ fn.query = <<"a", "a">>
    /\ Len(fn.matches) = 2
    /\ fn.matches[1].line = 1 /\ fn.matches[1].character = 0
    /\ fn.matches[2].line = 1 /\ fn.matches[2].character = 1


\* The requests sent so far for the document u.
RECURSIVE SumQueries(_)
SumQueries(S) ==
    IF S = {} THEN 0
    ELSE LET u == CHOOSE x \in S : TRUE
         IN  wire.query[u] + SumQueries(S \ {u})

\* How many of the first n requests of a check_function_call go to the
\* document u: the first to the source file, the later ones to the target.
RequestsTo(u, task, n) ==
    (IF n >= 1 /\ u = UriOf(task.sourceFile) THEN 1 ELSE 0)
    + (IF n >= 2 /\ u = UriOf(task.targetFile) THEN n - 1 ELSE 0)

\* C16: one check_function_call sends its requests one after the other: the
\* outline of the source file first; the outline of the target file only
\* when the first was answered and named the source function; the
\* references only when the second was answered and named the target
\* function; the verdict only on an answered references request.  A call
\* that ends at a step has sent the requests up to that step and no other:
\* at most two outline requests and one references request.
C16_StepsInOrder ==
    LET task == tasks[Caller]
        sent == SumQueries(Uris)
    IN  /\ (task.tool = "check_function_call" /\ task.pc # "idle") =>
             /\ task.step \in 1..3
             /\ sent = IF task.pc = "awaitQuery" THEN task.step ELSE task.step - 1
             /\ \A u \in Uris : wire.query[u] = RequestsTo(u, task, sent)
             /\ task.pc = "awaitQuery" =>
                  /\ task.op = IF task.step = 3 THEN "getReferences" ELSE "getDocumentSymbols"
                  /\ task.file = IF task.step = 1 THEN task.sourceFile ELSE task.targetFile
             /\ task.step = 1 => ~fn.seen
             /\ task.step = 2 =>
                  /\ Answered("check_function_call", 1)
                  /\ ~fn.answer.isNull
                  /\ task.sourceFunction \in NamesIn(fn.answer.val)
                  /\ IsSet(task.sourceSym) /\ task.sourceSym[1].name = task.sourceFunction
             /\ task.step = 3 =>
                  /\ Answered("check_function_call", 2)
                  /\ ~fn.answer.isNull
                  /\ task.targetFunction \in NamesIn(fn.answer.val)
                  /\ IsSet(task.position)
        /\ (task.pc = "idle" /\ fn.seen /\ fn.task.tool = "check_function_call") =>
             /\ sent = fn.task.step
             /\ sent <= 3
             /\ \A u \in Uris : wire.query[u] = RequestsTo(u, fn.task, sent)
             /\ task.resp.text \in {"Yes, calls", "No direct call found"} =>
                  (Answered("check_function_call", 3) /\ ~fn.answer.isNull)
             /\ ~fn.ok => task.resp.outcome = "isError"
        /\ (task.pc = "idle" /\ ~fn.seen) => sent = 0

\* A call whose source outline was answered and whose target outline
\* request then failed: two requests were sent, none for the references.
C16_Witness ==
    /\ tasks[Caller].pc = "idle"
    /\ tasks[Caller].resp.outcome = "isError"
    /\ fn.seen /\ ~fn.ok
    /\ fn.task.tool = "check_function_call"
    /\ fn.task.step = 2
    /\ fn.task.sourceFile = <<"b.ts">>
    /\ fn.task.targetFile = <<"a.ts">>
    /\ wire.query[UriB] = 1
    /\ wire.query[UriA] = 1


\* The task is past ensureInitialized(): in its file-open step, about to
\* send its query or waiting for the answer to it.
PastHandshake(task) ==
    task.pc \in {"didOpen", "awaitReadFile", "awaitDidOpen", "sendQuery", "awaitQuery"}

InFileOpen(task) == task.pc \in {"didOpen", "awaitReadFile", "awaitDidOpen"}

\* C17: under any interleaving of two tool calls, a query operation is past
\* ensureInitialized() only when a handshake has succeeded (both messages
\* sent, the flag set): it gets there from its own handshake in the step
\* that completes it, or it found the flag set.  A didOpen notification is
\* sent only by an operation in its file-open step, after its read; a query
\* only by an operation whose file-open step has ended, which it does on an
\* open file, on a failed read or when the write of the notification has
\* settled.  Nothing of either kind is on the wire while no handshake has
\* succeeded.
C17_HandshakeBeforeTraffic ==
    /\ [](\A t \in Tasks :
            PastHandshake(tasks[t]) =>
                (isInitialized /\ wire.initialize >= 1 /\ wire.initialized >= 1))
    /\ []((\E u \in Uris : wire.didOpen[u] > 0 \/ wire.query[u] > 0) => isInitialized)
    /\ [][/\ \A t \in Tasks :
               (PastHandshake(tasks'[t]) /\ ~PastHandshake(tasks[t])) =>
                   /\ tasks'[t].pc = "didOpen"
                   /\ wire' = wire
                   /\ \/ tasks[t].pc = "awaitInitialized" /\ ~isInitialized /\ isInitialized'
                      \/ tasks[t].pc = "awaitInitialized" /\ isInitialized
                      \/ tasks[t].pc = "idle" /\ isInitialized
          /\ wire'.didOpen # wire.didOpen =>
               \E t \in Tasks :
                   /\ tasks[t].pc = "awaitReadFile" /\ tasks'[t].pc = "awaitDidOpen"
                   /\ isInitialized
                   /\ wire'.didOpen = [wire.didOpen EXCEPT ![UriOf(tasks[t].file)] = @ + 1]
                   /\ wire'.query = wire.query
          /\ wire'.query # wire.query =>
               \E t \in Tasks :
                   /\ tasks[t].pc = "sendQuery" /\ tasks'[t].pc = "awaitQuery"
                   /\ isInitialized
                   /\ wire'.query = [wire.query EXCEPT ![UriOf(tasks[t].file)] = @ + 1]
                   /\ wire'.didOpen = wire.didOpen
          /\ \A t \in Tasks :
               (tasks'[t].pc = "sendQuery" /\ tasks[t].pc # "sendQuery") =>
                   /\ InFileOpen(tasks[t])
                   /\ wire' = wire
                   /\ tasks[t].pc = "didOpen" => UriOf(tasks[t].file) \in openFiles
                   /\ tasks[t].pc = "awaitReadFile" =>
                        OpenFailLine(UriOf(tasks[t].file)) \in errLog'
         ]_vars

\* Two calls made the handshake at once; one failed in it, the other
\* completed it and has its query out.
C17_Witness ==
    \E t, u \in Tasks :
        /\ tasks[t].pc = "idle"
        /\ tasks[t].resp.text = "Failed to initialize LSP"
        /\ tasks[u].pc = "awaitQuery"
        /\ wire.initialize = 2
        /\ wire.initialized = 1
        /\ isInitialized


\* One more query for the document u is on the wire after the step.
QueryGoesOut(u) ==
    /\ wire'.query = [wire.query EXCEPT ![u] = @ + 1]
    /\ wire'.didOpen = wire.didOpen

\* C18: the file-open step never fails its operation.  When the read fails,
\* the failure is logged, the file stays out of openFiles, no didOpen is
\* sent and the operation goes on to send its query; when the send of the
\* didOpen notification fails, likewise.  Whenever a failed open of a file
\* is in the log, a query for that file has gone out or the operation is
\* about to send it, and its next step sends it.  An operation on a file
\* that is not in openFiles, a failed open before it or not, starts the read
\* again.
C18_BestEffortOpen ==
    /\ [](\A u \in Uris :
            OpenFailLine(u) \in errLog =>
                \/ wire.query[u] >= 1
                \/ \E t \in Tasks : tasks[t].pc = "sendQuery" /\ UriOf(tasks[t].file) = u)
    /\ [][\A t \in Tasks :
            LET u == UriOf(tasks[t].file)
            IN  /\ (tasks[t].pc = "awaitReadFile" /\ tasks'[t] # tasks[t]) =>
                     \/ /\ tasks'[t].pc = "awaitDidOpen"
                        /\ wire'.didOpen[u] = wire.didOpen[u] + 1
                        /\ wire'.query = wire.query
                        /\ UNCHANGED <<openFiles, errLog>>
                     \/ /\ tasks'[t].pc = "sendQuery"
                        /\ OpenFailLine(u) \in errLog'
                        /\ u \notin openFiles'
                        /\ openFiles' = openFiles
                        /\ wire' = wire
                /\ (tasks[t].pc = "awaitDidOpen" /\ tasks'[t] # tasks[t]) =>
                     /\ tasks'[t].pc = "sendQuery"
                     /\ wire' = wire
                     /\ \/ openFiles' = openFiles \cup {u} /\ errLog' = errLog
                        \/ /\ openFiles' = openFiles
                           /\ u \notin openFiles'
                           /\ OpenFailLine(u) \in errLog'
                /\ (tasks[t].pc = "sendQuery" /\ tasks'[t] # tasks[t]) =>
                     /\ tasks'[t].pc = "awaitQuery"
                     /\ QueryGoesOut(u)
                     /\ UNCHANGED <<openFiles, errLog>>
                /\ (tasks[t].pc = "didOpen" /\ tasks'[t] # tasks[t] /\ u \notin openFiles) =>
                     /\ tasks'[t].pc = "awaitReadFile"
                     /\ wire' = wire
         ]_vars

\* The open of a.ts failed in the first call, whose query went out all the
\* same; the second call read the file again and opened it.
C18_Witness ==
    /\ calls = 2
    /\ OpenFailLine(UriA) \in errLog
    /\ UriA \in openFiles
    /\ wire.didOpen[UriA] = 1
    /\ wire.query[UriA] = 2
    /\ wire.query[UriB] = 0


\* The nodes of a symbol tree in pre-order: a node, then the nodes below
\* its children in their order, then its next sibling.
RECURSIVE PreOrder(_)
PreOrder(symbols) ==
    IF Len(symbols) = 0 THEN <<>>
    ELSE <<Head(symbols)>> \o PreOrder(Head(symbols).children) \o PreOrder(Tail(symbols))

\* C19: findSymbol returns the first node in pre-order whose name equals
\* the requested name, and null exactly when no node of the tree has it.
C19_PreOrderFirstMatch ==
    fn.done =>
        LET order == PreOrder(fn.symbols)
            hits == { k \in 1..Len(order) : order[k].name = fn.name }
        IN  /\ IsSet(fn.result) <=> hits # {}
            /\ hits # {} =>
                 fn.result = Present(order[CHOOSE k \in hits : \A j \in hits : k <= j])

\* The outline holds the name twice, nested in the first symbol and as the
\* second symbol: the nested one is returned.
C19_Witness ==
    /\ fn.done
    /\ Len(fn.symbols) = 2
    /\ fn.symbols[1].name # fn.name
    /\ fn.symbols[2].name = fn.name
    /\ Len(fn.symbols[1].children) = 1
    /\ fn.result = Present(fn.symbols[1].children[1])
    /\ fn.result # Present(fn.symbols[2])


\* C20: however two query operations against one file interleave, at most
\* one textDocument/didOpen is sent for the file (no step of a file-open
\* having failed).
C20_NoDuplicateOpen ==
    \A u \in Uris : OpenFailLine(u) \notin errLog => wire.didOpen[u] <= 1

\* C21: however the tool calls on a fresh client interleave, when the
\* handshake has been made and none has failed, exactly one initialize
\* request and one initialized notification have been sent.
C21_SingleHandshake ==
    ( /\ isInitialized
      /\ InitFailLine \notin errLog
      /\ \A t \in Tasks : ~InHandshake(tasks[t]) ) =>
        (wire.initialize = 1 /\ wire.initialized = 1)

\* C22: for every content and every query, the empty one included, the
\* match loop finishes and the matches are returned.
C22_SearchTerminates == <>(fn.pc = "done")


====
